---- MODULE Spec2Model ----
(***************************************************************************)
(* Model of vllm/attention/backends/hpu_attn.py: the HPU attention layer   *)
(* (HPUAttentionImpl.__init__ and .forward) and the two ALiBi bias         *)
(* builders (_make_prompt_alibi_bias, _make_decode_alibi_bias).            *)
(*                                                                         *)
(* Tensors are records [shape, data]: shape is the sequence of axis sizes,  *)
(* data the entries in row-major order; index tuples are 0-based.  Slopes  *)
(* and distances are integers; a dtype rounds them to its significand.     *)
(* An Optional value is a sequence of length 0 (None) or 1.                *)
(***************************************************************************)
EXTENDS Integers, Sequences, FiniteSets, TLC

VARIABLES layer, kv_cache, call, b_in, b_out

vars == <<layer, kv_cache, call, b_in, b_out>>

\* ------------------------------------------------------------------ bounds
MaxHeads == 2
BiasMaxHeads == 4
MaxSlope == 2
MaxSeqLen == 3
BigSeqLen == 258
NumBlocks == 2
BlockSize == 2

\* ------------------------------------------------- program constants
BF16Bits == 8
F32Bits == 24
PadMultiple == 8

None == <<>>
Some(x) == <<x>>
IsNone(o) == o = <<>>
Get(o) == o[1]

\* a sequence given by a rule, with its entries written out
Stored(f) == f \o <<>>

\* ------------------------------------------------- dtype arithmetic
Pow2(e) == 2 ^ e

RECURSIVE ExcessBits(_, _)
ExcessBits(n, bits) == IF n < Pow2(bits) THEN 0 ELSE 1 + ExcessBits(n \div 2, bits)

\* round a non-negative integer to `bits` significant bits, ties to even
RoundSig(n, bits) ==
    LET e == ExcessBits(n, bits)
        unit == Pow2(e)
        q == n \div unit
        r == n % unit
        up == e > 0 /\ (2 * r > unit \/ (2 * r = unit /\ q % 2 = 1))
    IN  IF up THEN (q + 1) * unit ELSE q * unit

MantissaBits(dtype) == IF dtype = "float32" THEN F32Bits ELSE BF16Bits

\* value of integer n once stored in a tensor of the given dtype
Cast(dtype, n) ==
    IF n < 0 THEN 0 - RoundSig(0 - n, MantissaBits(dtype))
    ELSE RoundSig(n, MantissaBits(dtype))

\* ------------------------------------------------- tensors
RECURSIVE Indices(_)
Indices(shape) ==
    IF shape = <<>> THEN {<<>>}
    ELSE LET rest == Indices(Tail(shape))
         IN  {<<i>> \o t : i \in 0 .. (Head(shape) - 1), t \in rest}

\* number of entries of a tensor of the given shape
RECURSIVE Size(_)
Size(shape) == IF shape = <<>> THEN 1 ELSE Head(shape) * Size(Tail(shape))

\* row-major strides of a shape
RECURSIVE Strides(_)
Strides(shape) ==
    IF shape = <<>> THEN <<>> ELSE <<Size(Tail(shape))>> \o Strides(Tail(shape))

\* row-major position (1-based) of an index tuple under the strides st, and back
RECURSIVE Dot(_, _, _)
Dot(st, idx, k) == IF k = 0 THEN 0 ELSE idx[k] * st[k] + Dot(st, idx, k - 1)

Offset(st, idx) == 1 + Dot(st, idx, Len(st))

Unravel(shape, st, n) == [k \in 1 .. Len(shape) |-> ((n - 1) \div st[k]) % shape[k]]

At(t, idx) == t.data[Offset(Strides(t.shape), idx)]

\* torch.arange(n, dtype=dtype)
Arange(n, dtype) == [k \in 0 .. (n - 1) |-> Cast(dtype, k)]

\* value left by torch.empty in storage that is never assigned
Uninit == 0 - 1

\* python slice [-n:] on an axis of the given size: first index kept
TrailingStart(size, n) == IF n = 0 THEN 0 ELSE IF n >= size THEN 0 ELSE size - n

\* t[:, :, -a:, -b:]  (axes 2 and 3, 0-based, whatever the rank of t)
SliceTrailing23(t, a, b) ==
    LET s2 == TrailingStart(t.shape[3], a)
        s3 == TrailingStart(t.shape[4], b)
        shp == [k \in 1 .. Len(t.shape) |->
                    IF k = 3 THEN t.shape[3] - s2
                    ELSE IF k = 4 THEN t.shape[4] - s3 ELSE t.shape[k]]
        ts == Strides(t.shape)
        Src(idx) == t.data[Offset(ts, [k \in 1 .. Len(idx) |->
                                        IF k = 3 THEN idx[3] + s2
                                        ELSE IF k = 4 THEN idx[4] + s3 ELSE idx[k]])]
        st == Strides(shp)
    IN  [shape |-> shp, data |-> Stored([n \in 1 .. Size(shp) |-> Src(Unravel(shp, st, n))])]

\* variant: the head axis split with the group index running fastest
Unflatten1_interleaved(t, g, q) ==
    LET shp == <<t.shape[1], g, q>> \o SubSeq(t.shape, 3, Len(t.shape))
        ts == Strides(t.shape)
        Src(idx) == t.data[Offset(ts, <<idx[1], idx[3] * g + idx[2]>> \o SubSeq(idx, 4, Len(idx)))]
        st == Strides(shp)
    IN  [shape |-> shp, data |-> Stored([n \in 1 .. Size(shp) |-> Src(Unravel(shp, st, n))])]

\* t.unflatten(1, (g, q)); requires g * q = t.shape[2]
Unflatten1(t, g, q) ==
    LET shp == <<t.shape[1], g, q>> \o SubSeq(t.shape, 3, Len(t.shape))
        ts == Strides(t.shape)
        Src(idx) == t.data[Offset(ts, <<idx[1], idx[2] * q + idx[3]>> \o SubSeq(idx, 4, Len(idx)))]
        st == Strides(shp)
    IN  [shape |-> shp, data |-> Stored([n \in 1 .. Size(shp) |-> Src(Unravel(shp, st, n))])]

CanUnflatten1(t, g, q) == g * q = t.shape[2]

\* ------------------------------------------------- bias builders
PaddedLen(seq_len) == ((seq_len + (PadMultiple - 1)) \div PadMultiple) * PadMultiple

\* variant: the operands of the subtraction exchanged
DistanceMatrix_swapped(seq_len, dtype) ==
    LET bias == Arange(seq_len, dtype)
    IN  [i \in 0 .. (seq_len - 1) |->
            [j \in 0 .. (seq_len - 1) |-> Cast(dtype, bias[i] - bias[j])]]

\* bias[None, :] - bias[:, None] : entry [i][j] = bias[j] - bias[i]
DistanceMatrix(seq_len, dtype) ==
    LET bias == Arange(seq_len, dtype)
    IN  [i \in 0 .. (seq_len - 1) |->
            [j \in 0 .. (seq_len - 1) |-> Cast(dtype, bias[j] - bias[i])]]

\* torch.empty(1, num_heads, seq_len, padded_len)
PromptStorageShape(num_heads, seq_len) == <<1, num_heads, seq_len, PaddedLen(seq_len)>>

\* shape of storage[:, :, :, :seq_len]
PromptViewShape(num_heads, seq_len) ==
    LET st == PromptStorageShape(num_heads, seq_len)
    IN  <<st[1], st[2], st[3], IF seq_len < st[4] THEN seq_len ELSE st[4]>>

\* per_head_bias[:, :] = bias ; per_head_bias.mul_(alibi_slopes[:, None, None])
\* (an entry of the storage outside the assigned columns keeps what empty left)
PromptPerHeadBias(alibi_slopes, dtype, seq_len) ==
    LET bias == DistanceMatrix(seq_len, dtype)
        shp == PromptViewShape(Len(alibi_slopes), seq_len)
        Entry(idx) == IF idx[4] < seq_len
                      THEN Cast(dtype, bias[idx[3]][idx[4]] * alibi_slopes[idx[2] + 1])
                      ELSE Uninit
        st == Strides(shp)
    IN  [shape |-> shp, data |-> Stored([n \in 1 .. Size(shp) |-> Entry(Unravel(shp, st, n))])]

\* result: [status, bias]; status "RuntimeError" when unflatten rejects the sizes
_make_prompt_alibi_bias(alibi_slopes, num_kv_heads, dtype, seq_len) ==
    LET num_heads == Len(alibi_slopes)
        per_head_bias == PromptPerHeadBias(alibi_slopes, dtype, seq_len)
        q == num_heads \div num_kv_heads
    IN  IF num_heads # num_kv_heads
        THEN IF CanUnflatten1(per_head_bias, num_kv_heads, q)
             THEN [status |-> "ok", bias |-> Some(Unflatten1(per_head_bias, num_kv_heads, q))]
             ELSE [status |-> "RuntimeError", bias |-> None]
        ELSE [status |-> "ok", bias |-> Some(per_head_bias)]

\* per_head_bias[:, :] = alibi_blocks.unsqueeze(-2) ; mul_(alibi_slopes[None, :, None])
DecodePerHeadBias(alibi_blocks, alibi_slopes, dtype) ==
    LET shp == <<alibi_blocks.shape[1], Len(alibi_slopes), alibi_blocks.shape[2]>>
        Entry(idx) == Cast(dtype, Cast(dtype, At(alibi_blocks, <<idx[1], idx[3]>>))
                                    * alibi_slopes[idx[2] + 1])
        st == Strides(shp)
    IN  [shape |-> shp, data |-> Stored([n \in 1 .. Size(shp) |-> Entry(Unravel(shp, st, n))])]

_make_decode_alibi_bias(alibi_blocks, alibi_slopes, num_kv_heads, dtype) ==
    LET num_heads == Len(alibi_slopes)
        per_head_bias == DecodePerHeadBias(alibi_blocks, alibi_slopes, dtype)
        q == num_heads \div num_kv_heads
    IN  IF num_heads # num_kv_heads
        THEN IF CanUnflatten1(per_head_bias, num_kv_heads, q)
             THEN [status |-> "ok", bias |-> Some(Unflatten1(per_head_bias, num_kv_heads, q))]
             ELSE [status |-> "RuntimeError", bias |-> None]
        ELSE [status |-> "ok", bias |-> Some(per_head_bias)]

\* ------------------------------------------------- inputs of the builders
Dtypes == {"float32", "bfloat16"}
\* slope lists: one slope per head, cycling through the slope values or all equal
LayerSlopes(nh) == {[h \in 1 .. nh |-> 1 + ((h - 1) % MaxSlope)], [h \in 1 .. nh |-> MaxSlope]}
SlopeVectors == UNION {LayerSlopes(n) : n \in 1 .. BiasMaxHeads}
BiasKvHeadCounts == 1 .. BiasMaxHeads
KvHeadCounts == 1 .. MaxHeads
\* alibi_blocks: per block and slot a distance to the last position (never
\* positive), either all zero or counted back from a per-block shift
AlibiBlockShifts == {0, 1}
AlibiBlocks ==
    UNION {{[shape |-> <<nb, BlockSize>>, data |-> [n \in 1 .. (nb * BlockSize) |-> 0]]}
           \cup {[shape |-> <<nb, BlockSize>>,
                  data |-> [n \in 1 .. (nb * BlockSize) |->
                              ((n - 1) % BlockSize) - (BlockSize - 1)
                                - sh * ((n - 1) \div BlockSize)]] : sh \in AlibiBlockShifts} :
           nb \in 1 .. NumBlocks}

\* the large length is tried with a single head only
PromptBiasInputs ==
    {[fn |-> "prompt", alibi_slopes |-> s, num_kv_heads |-> kv, dtype |-> d,
      seq_len |-> n, alibi_blocks |-> None] :
        s \in SlopeVectors, kv \in BiasKvHeadCounts, d \in Dtypes, n \in 1 .. MaxSeqLen}
    \cup
    {[fn |-> "prompt", alibi_slopes |-> <<MaxSlope>>, num_kv_heads |-> 1, dtype |-> d,
      seq_len |-> BigSeqLen, alibi_blocks |-> None] : d \in Dtypes}

DecodeBiasInputs ==
    {[fn |-> "decode", alibi_slopes |-> s, num_kv_heads |-> kv, dtype |-> d,
      seq_len |-> 0, alibi_blocks |-> Some(ab)] :
        s \in SlopeVectors, kv \in BiasKvHeadCounts, d \in Dtypes, ab \in AlibiBlocks}

NoLayer == None
NoCall == [kind |-> "none", status |-> "none", args |-> None, trace |-> <<>>,
           output |-> None]
Pending == [status |-> "pending", bias |-> None]
NoBiasInput == [fn |-> "none"]

InitBias ==
    /\ layer = NoLayer
    /\ kv_cache = None
    /\ call = NoCall
    /\ b_out = Pending
    /\ b_in \in PromptBiasInputs \cup DecodeBiasInputs

MakePromptAlibiBias ==
    /\ b_in.fn = "prompt"
    /\ b_out.status = "pending"
    /\ b_out' = _make_prompt_alibi_bias(b_in.alibi_slopes, b_in.num_kv_heads,
                                        b_in.dtype, b_in.seq_len)
    /\ UNCHANGED <<layer, kv_cache, call, b_in>>

MakeDecodeAlibiBias ==
    /\ b_in.fn = "decode"
    /\ b_out.status = "pending"
    /\ b_out' = _make_decode_alibi_bias(Get(b_in.alibi_blocks), b_in.alibi_slopes,
                                        b_in.num_kv_heads, b_in.dtype)
    /\ UNCHANGED <<layer, kv_cache, call, b_in>>

NextBias == MakePromptAlibiBias \/ MakeDecodeAlibiBias

SpecBias == InitBias /\ [][NextBias]_vars


\* ------------------------------------------------- environment switches
EnvFlagValues == {None, Some("0"), Some("1"), Some("True")}
SoftmaxImpls == {"wsum_head_amax", "wsum"}

\* str.lower() on the switch values in use
Lower(s) == IF s = "True" THEN "true" ELSE s

\* os.getenv(name, default)
getenv(e, name, default) == IF IsNone(e[name]) THEN default ELSE Get(e[name])

\* value.lower() in ['1', 'true']
Truthy(s) == Lower(s) \in {"1", "true"}

\* int(text) for the decimal strings in use
Decimal == Stored([n \in 1 .. (MaxSeqLen + 1) |-> ToString(n)])
IntOf(s) == CHOOSE n \in 1 .. (MaxSeqLen + 1) : Decimal[n] = s

\* HPUPagedAttention.get_supported_head_sizes()
get_supported_head_sizes == {64, 80, 96, 112, 128, 256}

\* ------------------------------------------------- HPUAttentionImpl.__init__
EffectiveKvHeads(a) == IF IsNone(a.num_kv_heads) THEN a.num_heads ELSE Get(a.num_kv_heads)

EffectiveMaxSeqLen(e, a) ==
    IF IsNone(a.alibi_slopes) \/ IsNone(e.VLLM_PROMPT_ALIBI_MAX_SEQ_LEN)
    THEN a.max_seq_len
    ELSE IntOf(Get(e.VLLM_PROMPT_ALIBI_MAX_SEQ_LEN))

SlopeTensorDtype(e) ==
    IF Truthy(getenv(e, "VLLM_ALIBI_USE_FLOAT32_BIASES", "0")) THEN "float32" ELSE "bfloat16"

\* torch.tensor(alibi_slopes, dtype=slope_tensor_dtype)
SlopeTensor(slopes, dtype) == Stored([h \in 1 .. Len(slopes) |-> Cast(dtype, slopes[h])])

PrefillUseFusedSdpa(e) ==
    Truthy(getenv(e, "VLLM_PROMPT_USE_FUSEDSDPA", "1")) /\ ~e.is_fake_hpu

UseContiguousPa(e) == Lower(getenv(e, "VLLM_CONTIGUOUS_PA", "true")) = "true"

\* variants: an assertion left out
FusedAssertFails_skipped(e, a) == FALSE
ContiguousAssertFails_skipped(e, a) == FALSE

\* the three assertions guarding ALiBi, in source order
FusedAssertFails(e, a) == PrefillUseFusedSdpa(e) /\ ~IsNone(a.alibi_slopes)

ContiguousAssertFails(e, a) == UseContiguousPa(e) /\ ~IsNone(a.alibi_slopes)

SoftmaxAssertFails(e, a) ==
    e.ACTUAL_PA_SOFTMAX_IMPL # "wsum_head_amax" /\ ~IsNone(a.alibi_slopes)

\* variant: the head size never checked
HeadSizeRejected_never(a) == FALSE

HeadSizeRejected(a) == a.head_size \notin get_supported_head_sizes

\* prompt bias precomputed by the constructor: [status, bias]
InitPromptBias(e, a) ==
    IF IsNone(a.alibi_slopes) THEN [status |-> "ok", bias |-> None]
    ELSE _make_prompt_alibi_bias(SlopeTensor(Get(a.alibi_slopes), SlopeTensorDtype(e)),
                                 EffectiveKvHeads(a), SlopeTensorDtype(e),
                                 EffectiveMaxSeqLen(e, a))

\* outcome of the constructor: the first statement that raises decides
InitStatus(e, a) ==
    LET pb == InitPromptBias(e, a)
    IN  IF pb.status # "ok" THEN pb.status
        ELSE IF a.num_heads % EffectiveKvHeads(a) # 0 THEN "AssertionError"
        ELSE IF FusedAssertFails(e, a) THEN "AssertionError"
        ELSE IF ContiguousAssertFails(e, a) THEN "AssertionError"
        ELSE IF SoftmaxAssertFails(e, a) THEN "AssertionError"
        ELSE IF HeadSizeRejected(a) THEN "ValueError"
        ELSE "ok"

\* the attributes of a constructed layer
InitSelf(e, a) ==
    [num_heads |-> a.num_heads,
     head_size |-> a.head_size,
     scale |-> a.scale,
     num_kv_heads |-> EffectiveKvHeads(a),
     alibi_slopes |-> IF IsNone(a.alibi_slopes) THEN None
                      ELSE Some(SlopeTensor(Get(a.alibi_slopes), SlopeTensorDtype(e))),
     alibi_dtype |-> IF IsNone(a.alibi_slopes) THEN None ELSE Some(SlopeTensorDtype(e)),
     prompt_position_bias |-> InitPromptBias(e, a).bias,
     max_seq_len |-> EffectiveMaxSeqLen(e, a),
     num_queries_per_kv |-> a.num_heads \div EffectiveKvHeads(a),
     prefill_use_fusedsdpa |-> PrefillUseFusedSdpa(e),
     use_contiguous_pa |-> UseContiguousPa(e)]

\* ------------------------------------------------- constructor inputs
HeadSizes == {64, 100}
MaxSeqLenEnvValues == {None, Some(Decimal[MaxSeqLen - 1])}

Envs(has_alibi) ==
    [VLLM_PROMPT_USE_FUSEDSDPA : EnvFlagValues,
     is_fake_hpu : BOOLEAN,
     VLLM_CONTIGUOUS_PA : EnvFlagValues,
     ACTUAL_PA_SOFTMAX_IMPL : SoftmaxImpls,
     VLLM_ALIBI_USE_FLOAT32_BIASES : IF has_alibi THEN {None, Some("1")} ELSE {None},
     VLLM_PROMPT_ALIBI_MAX_SEQ_LEN : IF has_alibi THEN MaxSeqLenEnvValues ELSE {None}]

InitArgs(has_alibi) ==
    UNION {[num_heads : {nh},
            head_size : HeadSizes,
            scale : {1},
            num_kv_heads : {None} \cup {Some(kv) : kv \in KvHeadCounts},
            alibi_slopes : IF has_alibi THEN {Some(sl) : sl \in LayerSlopes(nh)}
                           ELSE {None},
            max_seq_len : {MaxSeqLen}] : nh \in 1 .. MaxHeads}

\* ------------------------------------------------- KV cache store
Slots == (0 .. (NumBlocks - 1)) \X (0 .. (BlockSize - 1))
EmptyCache == [s \in Slots |-> "empty"]

\* VLLMKVCache.forward: scatter the tokens to (block_indices[i], block_offsets[i])
\* and return the updated cache
CacheWrite(tokens, cache, block_indices, block_offsets) ==
    [s \in Slots |->
        IF \E i \in 1 .. Len(block_indices) : <<block_indices[i], block_offsets[i]>> = s
        THEN tokens ELSE cache[s]]

\* ------------------------------------------------- HPUAttentionImpl.forward
AttentionTypes == {"DECODER", "ENCODER", "ENCODER_DECODER"}
AttentionOps == {"prompt_attention", "forward_prefix", "forward_decode"}

Ev(op, kc, vc, ab, pb) ==
    [op |-> op, key_cache |-> kc, value_cache |-> vc, attn_bias |-> ab,
     position_bias |-> pb]

Result(status, trace, cache, output) ==
    [status |-> status, trace |-> trace, cache |-> cache, output |-> output]

\* variant: the test on kv_cache inverted
CacheIsWritten_inverted(a) == ~a.kv_present

\* if kv_cache is not None: (the only place key_cache / value_cache are bound)
CacheIsWritten(a) == a.kv_present

KeyCacheAfter(cache, a) ==
    IF CacheIsWritten(a)
    THEN CacheWrite(a.key, cache.k, a.block_indices, a.block_offsets) ELSE cache.k

ValueCacheAfter(cache, a) ==
    IF CacheIsWritten(a)
    THEN CacheWrite(a.value, cache.v, a.block_indices, a.block_offsets) ELSE cache.v

CacheAfter(cache, a) == [k |-> KeyCacheAfter(cache, a), v |-> ValueCacheAfter(cache, a)]

\* the local names key_cache / value_cache: None stands for an unbound local
\* (w is the cache as the write step leaves it)
LocalKeyCache(w, a) == IF CacheIsWritten(a) THEN Some(w.k) ELSE None

LocalValueCache(w, a) == IF CacheIsWritten(a) THEN Some(w.v) ELSE None

WriteEvents(w, a) ==
    IF CacheIsWritten(a)
    THEN <<Ev("k_cache", LocalKeyCache(w, a), None, None, None),
           Ev("v_cache", None, LocalValueCache(w, a), None, None)>>
    ELSE <<>>

\* position_bias[:, :, -attn_bias.size(-2):, -attn_bias.size(-1):]
PromptPositionBias(self, attn_bias) ==
    IF IsNone(self.prompt_position_bias) THEN None
    ELSE Some(SliceTrailing23(Get(self.prompt_position_bias),
                              attn_bias.shape[3], attn_bias.shape[4]))

OutputOf(a, self) == Some([shape |-> <<a.batch_size, a.seq_len, self.num_heads * self.head_size>>])

\* is_prompt, block_list is None: ops.prompt_attention
DensePrefill(self, w, a) ==
    IF ~self.prefill_use_fusedsdpa
    THEN IF IsNone(a.attn_bias)
         THEN Result("AssertionError", WriteEvents(w, a), w, None)
         ELSE Result("ok",
                     WriteEvents(w, a) \o
                        <<Ev("prompt_attention", None, None, a.attn_bias,
                             PromptPositionBias(self, Get(a.attn_bias)))>>,
                     w, OutputOf(a, self))
    ELSE Result("ok",
                WriteEvents(w, a) \o <<Ev("prompt_attention", None, None, None, None)>>,
                w, OutputOf(a, self))

\* is_prompt, block_list given: HPUPagedAttention.forward_prefix
PrefixPrefill(self, w, a) ==
    IF IsNone(LocalKeyCache(w, a)) \/ IsNone(LocalValueCache(w, a))
    THEN Result("UnboundLocalError", WriteEvents(w, a), w, None)
    ELSE Result("ok",
                WriteEvents(w, a) \o
                    <<Ev("forward_prefix", LocalKeyCache(w, a),
                         LocalValueCache(w, a), a.attn_bias, None)>>,
                w, OutputOf(a, self))

\* decode: position bias from alibi_blocks, [status, bias]
DecodePositionBias(self, a) ==
    IF ~IsNone(self.alibi_slopes) /\ ~IsNone(a.alibi_blocks)
    THEN _make_decode_alibi_bias(Get(a.alibi_blocks), Get(self.alibi_slopes),
                                 self.num_kv_heads, Get(self.alibi_dtype))
    ELSE [status |-> "ok", bias |-> None]

\* not is_prompt: HPUPagedAttention.forward_decode
Decode(self, w, a) ==
    LET pb == DecodePositionBias(self, a)
    IN  IF pb.status # "ok"
        THEN Result(pb.status, WriteEvents(w, a), w, None)
        ELSE IF IsNone(LocalKeyCache(w, a)) \/ IsNone(LocalValueCache(w, a))
        THEN Result("UnboundLocalError", WriteEvents(w, a), w, None)
        ELSE Result("ok",
                    WriteEvents(w, a) \o
                        <<Ev("forward_decode", LocalKeyCache(w, a),
                             LocalValueCache(w, a), a.attn_bias, pb.bias)>>,
                    w, OutputOf(a, self))

\* variant: the attn_type check left out
AttnTypeRejected_never(a) == FALSE

\* the attn_type check that opens forward
AttnTypeRejected(a) == a.attn_type # "DECODER"

\* variant: every prompt run sent to the dense path
forward_dense_always(self, cache, a) ==
    LET w == CacheAfter(cache, a)
    IN  IF AttnTypeRejected(a) THEN Result("NotImplementedError", <<>>, cache, None)
        ELSE IF a.is_prompt THEN DensePrefill(self, w, a)
             ELSE Decode(self, w, a)

forward(self, cache, a) ==
    LET w == CacheAfter(cache, a)
    IN  IF AttnTypeRejected(a) THEN Result("NotImplementedError", <<>>, cache, None)
        ELSE IF a.is_prompt
             THEN IF IsNone(a.block_list) THEN DensePrefill(self, w, a)
                  ELSE PrefixPrefill(self, w, a)
             ELSE Decode(self, w, a)

\* ------------------------------------------------- forward inputs
\* one token at slot (0, 0), or two tokens at the first and the last slot
WriteAddresses ==
    {[block_indices |-> <<0>>, block_offsets |-> <<0>>],
     [block_indices |-> <<0, NumBlocks - 1>>, block_offsets |-> <<0, BlockSize - 1>>]}

\* with no cache passed the write addresses are not used: one choice is enough
AddressesFor(kvp) ==
    IF kvp THEN WriteAddresses
    ELSE {[block_indices |-> <<0>>, block_offsets |-> <<0>>]}

AttnBiasOf(q, k) == Some([shape |-> <<1, 1, q, k>>])
SomeBlockList == Some(<<0>>)
DecodeAlibiBlocks == Some([shape |-> <<1, BlockSize>>,
                           data |-> [n \in 1 .. BlockSize |-> n - BlockSize]])

Meta(t, p, bl, kvp, ab, alb, q, k, w) ==
    [attn_type |-> t, is_prompt |-> p, block_list |-> bl, kv_present |-> kvp,
     attn_bias |-> ab, alibi_blocks |-> alb, batch_size |-> 1, seq_len |-> q,
     seq_len_kv |-> k, key |-> "key", value |-> "value",
     block_indices |-> w.block_indices, block_offsets |-> w.block_offsets]

\* (seq_len, seq_len_kv) of a dense prefill: shortest, longest, and two between
DenseLengths ==
    {<<1, 1>>, <<1, MaxSeqLen>>, <<MaxSeqLen - 1, MaxSeqLen>>, <<MaxSeqLen, MaxSeqLen>>}

DensePrefillCalls ==
    UNION {{Meta("DECODER", TRUE, None, kvp, AttnBiasOf(p[1], p[2]), None, p[1], p[2], w) :
                p \in DenseLengths, w \in AddressesFor(kvp)}
           \cup {Meta("DECODER", TRUE, None, kvp, None, None, 1, 1, w) :
                    w \in AddressesFor(kvp)} : kvp \in BOOLEAN}

PrefixPrefillCalls ==
    UNION {{Meta("DECODER", TRUE, SomeBlockList, kvp, AttnBiasOf(1, 1), None, 1, 1, w) :
                w \in AddressesFor(kvp)} : kvp \in BOOLEAN}

DecodeCalls ==
    UNION {{Meta("DECODER", FALSE, SomeBlockList, kvp, AttnBiasOf(1, BlockSize), alb, 1, 1, w) :
                alb \in {None, DecodeAlibiBlocks}, w \in AddressesFor(kvp)} : kvp \in BOOLEAN}

OtherTypeCalls ==
    {Meta(t, p, None, kvp, None, None, 1, 1, w) :
        t \in AttentionTypes \ {"DECODER"}, p \in BOOLEAN, kvp \in BOOLEAN,
        w \in AddressesFor(FALSE)}

ForwardCalls == DensePrefillCalls \cup PrefixPrefillCalls \cup DecodeCalls \cup OtherTypeCalls

\* ------------------------------------------------- the layer as a state machine
Init ==
    /\ layer = NoLayer
    /\ kv_cache = [k |-> EmptyCache, v |-> EmptyCache]
    /\ call = NoCall
    /\ b_in = NoBiasInput
    /\ b_out = Pending

\* one construction attempt per run; a constructor that raises yields no layer
Construct ==
    /\ call.kind = "none"
    /\ \E has_alibi \in BOOLEAN :
        \E e \in Envs(has_alibi), a \in InitArgs(has_alibi) :
            LET status == InitStatus(e, a)
            IN  /\ layer' = IF status = "ok" THEN Some(InitSelf(e, a)) ELSE NoLayer
                /\ call' = [kind |-> "init", status |-> status,
                            args |-> Some([env |-> e, init |-> a]), trace |-> <<>>,
                            output |-> None]
    /\ UNCHANGED <<kv_cache, b_in, b_out>>

Forward ==
    /\ ~IsNone(layer)
    /\ \E a \in ForwardCalls :
        LET r == forward(Get(layer), kv_cache, a)
        IN  /\ call' = [kind |-> "forward", status |-> r.status, args |-> Some(a),
                        trace |-> r.trace, output |-> r.output]
            /\ kv_cache' = r.cache
    /\ UNCHANGED <<layer, b_in, b_out>>

Next == Construct \/ Forward

Spec == Init /\ [][Next]_vars


\* ------------------------------------------------- shorthands for the properties
IsInit == call.kind = "init"
IsForward == call.kind = "forward"
Args == Get(call.args)
Self == Get(layer)

OpIndices(tr) == {i \in 1 .. Len(tr) : tr[i].op \in AttentionOps}
KeyWrites(tr) == {i \in 1 .. Len(tr) : tr[i].op = "k_cache"}
ValueWrites(tr) == {i \in 1 .. Len(tr) : tr[i].op = "v_cache"}

FusedFlagEnabled(e) == Truthy(getenv(e, "VLLM_PROMPT_USE_FUSEDSDPA", "1"))
RestOfInitPasses(e, a) ==
    /\ a.num_heads % EffectiveKvHeads(a) = 0
    /\ Lower(getenv(e, "VLLM_CONTIGUOUS_PA", "true")) # "true"
    /\ e.ACTUAL_PA_SOFTMAX_IMPL = "wsum_head_amax"
    /\ a.head_size \in get_supported_head_sizes

\* ------------------------------------------------- C1
\* C1 (as claimed): every decoder forward call made without a cache (and with
\* attn_bias set where the dense path needs it) completes with an output and
\* performs no cache read or write.
C1_CacheAbsentNeverRaises ==
    (/\ IsForward
     /\ Args.attn_type = "DECODER"
     /\ ~Args.kv_present
     /\ (Args.is_prompt /\ IsNone(Args.block_list) /\ ~Self.prefill_use_fusedsdpa
            => ~IsNone(Args.attn_bias)))
    => /\ call.status = "ok"
       /\ ~IsNone(call.output)
       /\ \A i \in 1 .. Len(call.trace) :
            IsNone(call.trace[i].key_cache) /\ IsNone(call.trace[i].value_cache)

\* ------------------------------------------------- C2
\* C2 (as claimed): a construction with ALiBi slopes while the
\* VLLM_PROMPT_USE_FUSEDSDPA flag is enabled fails, on real and fake HPU alike.
C2_AlibiWithFusedFlagFails ==
    (/\ IsInit
     /\ ~IsNone(Args.init.alibi_slopes)
     /\ FusedFlagEnabled(Args.env))
    => call.status # "ok" /\ layer = NoLayer

\* C2 (amended): a construction with ALiBi slopes while the flag is enabled and
\* the device is not a fake HPU fails and produces no layer.
C2_AlibiWithFusedFlagOnRealHpuFails ==
    (/\ IsInit
     /\ ~IsNone(Args.init.alibi_slopes)
     /\ FusedFlagEnabled(Args.env)
     /\ ~Args.env.is_fake_hpu)
    => call.status # "ok" /\ layer = NoLayer

C2_Witness ==
    /\ IsInit
    /\ ~IsNone(Args.init.alibi_slopes)
    /\ FusedFlagEnabled(Args.env)
    /\ ~Args.env.is_fake_hpu
    /\ RestOfInitPasses(Args.env, Args.init)
    /\ call.status = "AssertionError"
    /\ layer = NoLayer

\* ------------------------------------------------- C3
\* C3: a forward call whose attn_type is not DECODER raises NotImplementedError,
\* invokes nothing, returns nothing and leaves the cache and the layer as they were.
C3_NonDecoderFailsWithoutEffect ==
    [][(call'.kind = "forward" /\ Get(call'.args).attn_type # "DECODER")
        => /\ call'.status = "NotImplementedError"
           /\ call'.trace = <<>>
           /\ IsNone(call'.output)
           /\ kv_cache' = kv_cache
           /\ layer' = layer]_vars

C3_Witness ==
    /\ IsForward
    /\ Args.attn_type = "ENCODER_DECODER"
    /\ Args.kv_present
    /\ Args.is_prompt
    /\ call.status = "NotImplementedError"

\* ------------------------------------------------- C4
\* C4: a construction whose head_size is outside the supported set fails and
\* produces no layer, whatever the other arguments and switches.
C4_UnsupportedHeadSizeFails ==
    (IsInit /\ Args.init.head_size \notin get_supported_head_sizes)
    => call.status # "ok" /\ layer = NoLayer

C4_Witness ==
    /\ IsInit
    /\ Args.init.head_size \notin get_supported_head_sizes
    /\ ~IsNone(Args.init.alibi_slopes)
    /\ call.status = "ValueError"
    /\ layer = NoLayer

\* ------------------------------------------------- C5
\* the trailing q x k submatrix of t over its last two axes, head axes whole
TrailingSubmatrix(t, q, k) ==
    LET r == Len(t.shape)
        shp == [m \in 1 .. r |-> IF m = r - 1 THEN q ELSE IF m = r THEN k ELSE t.shape[m]]
        Src(idx) == At(t, [m \in 1 .. r |->
                              IF m = r - 1 THEN idx[m] + (t.shape[r - 1] - q)
                              ELSE IF m = r THEN idx[m] + (t.shape[r] - k)
                              ELSE idx[m]])
        st == Strides(shp)
    IN  [shape |-> shp, data |-> Stored([n \in 1 .. Size(shp) |-> Src(Unravel(shp, st, n))])]

\* C5 (as claimed): in a dense-path prefill call on an ALiBi layer the position
\* bias handed to prompt_attention is the trailing seq_len x seq_len_kv
\* submatrix of the precomputed bias over its query and key axes, for every
\* head configuration.
C5_DensePrefillBiasIsTrailingSubmatrix ==
    (/\ IsForward
     /\ call.status = "ok"
     /\ Args.is_prompt
     /\ IsNone(Args.block_list)
     /\ ~Self.prefill_use_fusedsdpa
     /\ ~IsNone(Self.prompt_position_bias)
     /\ Args.seq_len <= Self.max_seq_len
     /\ Args.seq_len_kv <= Self.max_seq_len)
    => \A i \in OpIndices(call.trace) :
          call.trace[i].position_bias =
             Some(TrailingSubmatrix(Get(Self.prompt_position_bias),
                                    Args.seq_len, Args.seq_len_kv))

\* ------------------------------------------------- C7
\* C7: a layer constructed with ALiBi slopes has the fused prefill path off, the
\* contiguous-cache feature off and the wsum_head_amax softmax active; an ALiBi
\* construction that breaks one of the three fails in the constructor.
C7_AlibiLayerConfiguration ==
    /\ (~IsNone(layer) /\ ~IsNone(Self.alibi_slopes))
            => ~Self.prefill_use_fusedsdpa /\ ~Self.use_contiguous_pa
    /\ (IsInit /\ ~IsNone(Args.init.alibi_slopes))
            => ((\/ FusedFlagEnabled(Args.env) /\ ~Args.env.is_fake_hpu
                 \/ Lower(getenv(Args.env, "VLLM_CONTIGUOUS_PA", "true")) = "true"
                 \/ Args.env.ACTUAL_PA_SOFTMAX_IMPL # "wsum_head_amax")
                => call.status # "ok" /\ layer = NoLayer)

C7_Witness ==
    /\ IsInit
    /\ call.status = "ok"
    /\ ~IsNone(layer)
    /\ ~IsNone(Self.alibi_slopes)
    /\ Self.num_heads > Self.num_kv_heads

\* ------------------------------------------------- C9
ExpectedOp(a) ==
    IF a.is_prompt
    THEN IF IsNone(a.block_list) THEN "prompt_attention" ELSE "forward_prefix"
    ELSE "forward_decode"

OneExpectedOperator ==
    (IsForward /\ call.status = "ok")
    => /\ Cardinality(OpIndices(call.trace)) = 1
       /\ \A i \in OpIndices(call.trace) :
            /\ call.trace[i].op = ExpectedOp(Args)
            /\ (call.trace[i].op = "prompt_attention" /\ Self.prefill_use_fusedsdpa)
                  => IsNone(call.trace[i].attn_bias) /\ IsNone(call.trace[i].position_bias)

\* C9: a successful forward call invokes exactly one attention operator, the one
\* its metadata and the layer configuration select (dense/fused prompt attention,
\* prefix attention or paged decode), whatever was called before, and forward
\* leaves the layer configuration unchanged.
C9_OneOperatorPerCall ==
    /\ []OneExpectedOperator
    /\ [][call'.kind = "forward" => layer' = layer]_vars

C9_Witness ==
    /\ IsForward
    /\ call.status = "ok"
    /\ Args.is_prompt
    /\ ~IsNone(Args.block_list)
    /\ \E i \in OpIndices(call.trace) : call.trace[i].op = "forward_prefix"
    /\ kv_cache.k # EmptyCache

\* ------------------------------------------------- C10
WritesOnceBeforeOperator ==
    /\ Cardinality(KeyWrites(call.trace)) = 1
    /\ Cardinality(ValueWrites(call.trace)) = 1
    /\ \A w \in KeyWrites(call.trace) \cup ValueWrites(call.trace) :
          \A i \in OpIndices(call.trace) : w < i
    /\ \A n \in 1 .. Len(Args.block_indices) :
          /\ kv_cache.k[<<Args.block_indices[n], Args.block_offsets[n]>>] = Args.key
          /\ kv_cache.v[<<Args.block_indices[n], Args.block_offsets[n]>>] = Args.value

OperatorReadsWrittenHandles(ops) ==
    \A i \in OpIndices(call.trace) :
        call.trace[i].op \in ops
        => /\ \A w \in KeyWrites(call.trace) :
                call.trace[i].key_cache = call.trace[w].key_cache
           /\ \A w \in ValueWrites(call.trace) :
                call.trace[i].value_cache = call.trace[w].value_cache
           /\ call.trace[i].key_cache = Some(kv_cache.k)
           /\ call.trace[i].value_cache = Some(kv_cache.v)

WritesIffCachePresent ==
    (KeyWrites(call.trace) \cup ValueWrites(call.trace) # {}) <=> Args.kv_present

\* C10 (as claimed): in every decoder forward call with a cache present the key
\* and the value are each written once, before the attention operator, and the
\* operator (whichever it is) reads the handles those writes returned; writes
\* happen iff a cache is present.
C10_OperatorReadsWrittenHandles ==
    (IsForward /\ Args.attn_type = "DECODER")
    => /\ WritesIffCachePresent
       /\ Args.kv_present
            => WritesOnceBeforeOperator /\ OperatorReadsWrittenHandles(AttentionOps)

\* C10 (amended): as above, but only the prefix-prefill and the decode operator
\* receive the written cache handles; the dense/fused prompt attention operator
\* receives the fresh key/value and no cache handle.
C10_WritesPrecedeOperator ==
    (IsForward /\ Args.attn_type = "DECODER")
    => /\ WritesIffCachePresent
       /\ Args.kv_present
            => /\ WritesOnceBeforeOperator
               /\ OperatorReadsWrittenHandles({"forward_prefix", "forward_decode"})
               /\ \A i \in OpIndices(call.trace) :
                     call.trace[i].op = "prompt_attention"
                     => IsNone(call.trace[i].key_cache) /\ IsNone(call.trace[i].value_cache)

C10_Witness ==
    /\ IsForward
    /\ call.status = "ok"
    /\ Args.kv_present
    /\ ~Args.is_prompt
    /\ Len(Args.block_indices) = 2
    /\ \E i \in OpIndices(call.trace) : call.trace[i].op = "forward_decode"


\* ------------------------------------------------- properties of the bias builders
BiasOk(fn) == b_in.fn = fn /\ b_out.status = "ok"
Bias == Get(b_out.bias)
NumHeadsIn == Len(b_in.alibi_slopes)
QueriesPerKv == NumHeadsIn \div b_in.num_kv_heads

\* index of head h on the head axis (or axes) of a built bias
HeadIndex(h) ==
    IF NumHeadsIn = b_in.num_kv_heads THEN <<h>>
    ELSE <<h \div QueriesPerKv, h % QueriesPerKv>>

PromptEntry(h, i, j) == At(Bias, <<0>> \o HeadIndex(h) \o <<i, j>>)

\* every position, distance and product of the call is exact in its dtype
ExactInDtype ==
    /\ b_in.seq_len - 1 <= Pow2(MantissaBits(b_in.dtype))
    /\ \A h \in 1 .. NumHeadsIn :
          b_in.alibi_slopes[h] * (b_in.seq_len - 1) <= Pow2(MantissaBits(b_in.dtype))

LastTwoAxesAreSeqLen ==
    /\ Bias.shape[Len(Bias.shape) - 1] = b_in.seq_len
    /\ Bias.shape[Len(Bias.shape)] = b_in.seq_len

\* ------------------------------------------------- C6
\* C6 (as claimed): with num_heads > num_kv_heads the head axis of a built bias
\* is (num_kv_heads, num_heads / num_kv_heads) and the sub-heads of one KV-head
\* group all carry the same slice.
C6_SubHeadsCarryIdenticalSlices ==
    (b_out.status = "ok" /\ NumHeadsIn > b_in.num_kv_heads)
    => /\ Bias.shape[2] = b_in.num_kv_heads
       /\ Bias.shape[3] = QueriesPerKv
       /\ \A idx \in Indices(Bias.shape) : \A s \in 0 .. (QueriesPerKv - 1) :
             At(Bias, idx) = At(Bias, [idx EXCEPT ![3] = s])

\* C6 (amended): with num_heads > num_kv_heads (a multiple of it) the head axis
\* is (num_kv_heads, num_heads / num_kv_heads), entry [g, s] being the bias of
\* head g * (num_heads / num_kv_heads) + s scaled by that head's own slope:
\* consecutive heads share a group, nothing is interleaved, and two sub-heads
\* carry the same slice only where their slopes are equal.
C6_GroupedHeadsKeepOwnSlope ==
    (b_out.status = "ok" /\ NumHeadsIn > b_in.num_kv_heads)
    => /\ Bias.shape[2] = b_in.num_kv_heads
       /\ Bias.shape[3] = QueriesPerKv
       /\ Bias.shape[2] * Bias.shape[3] = NumHeadsIn
       /\ \A idx \in Indices(Bias.shape) :
             LET slope == b_in.alibi_slopes[idx[2] * QueriesPerKv + idx[3] + 1]
             IN  IF b_in.fn = "prompt"
                 THEN /\ Len(idx) = 5
                      /\ At(Bias, idx) = slope * (idx[5] - idx[4])
                 ELSE /\ Len(idx) = 4
                      /\ At(Bias, idx) = slope * At(Get(b_in.alibi_blocks), <<idx[1], idx[4]>>)

C6_Witness ==
    /\ BiasOk("prompt")
    /\ NumHeadsIn = 4
    /\ b_in.num_kv_heads = 2
    /\ b_in.alibi_slopes = <<1, 2, 1, 2>>
    /\ b_in.seq_len = 2
    /\ Bias.shape = <<1, 2, 2, 2, 2>>
    /\ At(Bias, <<0, 1, 0, 0, 1>>) # At(Bias, <<0, 1, 1, 0, 1>>)

\* ------------------------------------------------- C8
\* C8 (as claimed): entry [h, i, j] of the prefill bias is slope[h] * (j - i) for
\* every head and every i, j below seq_len, and the last two axes have seq_len
\* entries.
C8_PromptBiasIsExactDistance ==
    BiasOk("prompt")
    => /\ LastTwoAxesAreSeqLen
       /\ \A h \in 0 .. (NumHeadsIn - 1), i \in 0 .. (b_in.seq_len - 1),
             j \in 0 .. (b_in.seq_len - 1) :
             PromptEntry(h, i, j) = b_in.alibi_slopes[h + 1] * (j - i)

\* C8 (amended): the last two axes have seq_len entries, and entry [h, i, j] is
\* slope[h] * (j - i) computed in the bias dtype from positions rounded to that
\* dtype; it is the exact signed distance times the slope whenever positions,
\* distances and products are representable in the dtype.
C8_PromptBiasIsDtypeDistance ==
    BiasOk("prompt")
    => /\ LastTwoAxesAreSeqLen
       /\ \A h \in 0 .. (NumHeadsIn - 1), i \in 0 .. (b_in.seq_len - 1),
             j \in 0 .. (b_in.seq_len - 1) :
             PromptEntry(h, i, j) =
                Cast(b_in.dtype,
                     b_in.alibi_slopes[h + 1]
                       * Cast(b_in.dtype, Cast(b_in.dtype, j) - Cast(b_in.dtype, i)))
       /\ ExactInDtype
            => \A h \in 0 .. (NumHeadsIn - 1), i \in 0 .. (b_in.seq_len - 1),
                  j \in 0 .. (b_in.seq_len - 1) :
                  PromptEntry(h, i, j) = b_in.alibi_slopes[h + 1] * (j - i)

C8_Witness ==
    /\ BiasOk("prompt")
    /\ b_in.seq_len = MaxSeqLen
    /\ PaddedLen(b_in.seq_len) > b_in.seq_len
    /\ b_in.dtype = "bfloat16"
    /\ ExactInDtype
    /\ b_in.alibi_slopes = <<1, MaxSlope>>
    /\ b_in.num_kv_heads = 1
    /\ PromptEntry(1, MaxSeqLen - 1, 0) = 0 - (MaxSlope * (MaxSeqLen - 1))
    /\ PromptEntry(1, 0, MaxSeqLen - 1) = MaxSlope * (MaxSeqLen - 1)

====
